---- MODULE Spec2Model ----
(***************************************************************************)
(* Model of the streaming subsystem of MoviesForUs (src/app.py): the       *)
(* /stream/<filename> handler with its Range handling, the validation of   *)
(* the asset, the transcode fallback manager safe_convert_video, the lazy  *)
(* body generator and the close callbacks of a response.                   *)
(*                                                                         *)
(* Files are byte sequences of at most MaxFileLen bytes; the chunk size of *)
(* the body generator is scaled down with them (STREAM_CHUNK_SIZE).        *)
(* Header values are sequences of one-character strings, so that parsing   *)
(* (the regular expression and int()) and formatting (the f-strings) are   *)
(* computed as the code computes them.                                     *)
(***************************************************************************)
EXTENDS Integers, Sequences, FiniteSets, TLC

VARIABLES
    fs,               \* the file system: path -> file, DOMAIN fs = the files that exist
    FFMPEG_AVAILABLE, \* app.py:318, computed once at start-up
    tmp_seq,          \* number of temporary files created so far (names are unique)
    pc,               \* position of the request in flight: idle, hung, body, close, done
    req,              \* the request in flight
    resp,             \* the response returned by stream (body: the bytes sent so far)
    gen,              \* the state of the body generator generate()
    stages,           \* the stages stream has run for this request, in order
    job,              \* a direct call of safe_convert_video: its loop state
    calls,            \* number of direct calls of safe_convert_video made
    users,            \* the table users: rows of User (app.py:340-345)
    movies,           \* the table movies: rows of Movie (app.py:351-358)
    movie_seq,        \* the last id the table movies has given out
    current_user,     \* the id of the logged-in user of the client's session, 0 if none
    lastreq,          \* the last request to a route other than a byte read, with its answer
    inflight,         \* concurrent requests to /stream: what each has got and holds
    checked           \* the last calls of validate_video_file on one path: their results

\* the variables of the accounts, the movie table and the concurrent requests
others == <<users, movies, movie_seq, current_user, lastreq, inflight, checked>>

vars == <<fs, FFMPEG_AVAILABLE, tmp_seq, pc, req, resp, gen, stages, job, calls, others>>

(***************************************************************************)
(* Bounds of the model.                                                    *)
(***************************************************************************)
MaxFileLen == 3
\* Range numbers go past the file size by enough to make every branch of the
\* length arithmetic happen (length 0, -1 and below -1).
RangeSlack == 2
\* Scaled with the files: 20 MiB in app.py:280.
STREAM_CHUNK_SIZE == 2
MaxCalls == 1

(***************************************************************************)
(* Characters, int() and str().                                            *)
(***************************************************************************)
Digits == <<"0", "1", "2", "3", "4", "5", "6", "7", "8", "9">>

IsDigit(c) == \E d \in 1..10 : Digits[d] = c

DigitVal(c) == (CHOOSE d \in 1..10 : Digits[d] = c) - 1

RECURSIVE int(_)
\* Python int() of a non-empty string of decimal digits
int(ds) ==
    IF ds = <<>> THEN 0
    ELSE int(SubSeq(ds, 1, Len(ds) - 1)) * 10 + DigitVal(ds[Len(ds)])

RECURSIVE str(_)
\* Python str() of an integer, as the f-strings format it
str(n) ==
    IF n < 0 THEN <<"-">> \o str(-n)
    ELSE IF n < 10 THEN <<Digits[n + 1]>>
    ELSE str(n \div 10) \o <<Digits[(n % 10) + 1]>>

(***************************************************************************)
(* The file system.                                                        *)
(***************************************************************************)
UPLOAD_FOLDER == "uploads"
TEMP_DIR == "tmp"

\* os.path.join(folder, name); a name is a sequence of its parts
join(dir, name) == [dir |-> dir, name |-> name]

\* the value None of an optional path argument
None == [dir |-> "", name |-> <<>>]

exists(f, p) == p \in DOMAIN f

getsize(f, p) == Len(f[p].bytes)

\* os.access(path, os.R_OK)
access(f, p) == exists(f, p) /\ f[p].readable

Min(a, b) == IF a < b THEN a ELSE b

\* f.seek(pos); f.read(n) on a binary file object: n = -1 reads to the end of
\* the file, n < -1 raises ValueError, a position at or past the end reads b''
CanRead(n) == n >= -1

read(bytes, pos, n) ==
    LET last == IF n = -1 THEN Len(bytes) ELSE Min(pos + n, Len(bytes))
    IN  IF pos >= Len(bytes) \/ last <= pos THEN <<>>
        ELSE SubSeq(bytes, pos + 1, last)

\* f with path p written (created or overwritten)
write(f, p, file) == [q \in DOMAIN f \cup {p} |-> IF q = p THEN file ELSE f[q]]

\* os.unlink(p)
unlink(f, p) == [q \in DOMAIN f \ {p} |-> f[q]]

(***************************************************************************)
(* Files.  A file has its bytes, the container it really is, what          *)
(* VideoFileClip reads from it, and whether the process may read it.       *)
(***************************************************************************)
FileNames == {<<"a", ".mp4">>, <<"b", ".mkv">>, <<"c", ".avi">>}

\* the files the upload folder may hold when the application starts
StoredNames == {<<"a", ".mp4">>, <<"b", ".mkv">>}

ContainerOf(name) == IF name[Len(name)] = ".mp4" THEN "video/mp4" ELSE "video/x-matroska"

\* the bytes of the stored file `name` of size n: distinct at every position
BytesOf(name, n) == [i \in 1..n |-> (IF name[1] = "a" THEN 0 ELSE 10) + i]

\* VideoFileClip(path) raises
NoClip == [ok |-> FALSE, duration |-> 0, width |-> 0, height |-> 0, fps |-> 0]

Clip(d, w, h) == [ok |-> TRUE, duration |-> d, width |-> w, height |-> h, fps |-> 24]

\* the limits of validate_video_file, and the values on both sides of each
\* max_file_size = 2 * 1024 * 1024 * 1024 bytes, counted in MiB: the number of
\* bytes is one more than the largest integer TLC computes with
max_file_size_MiB == 2 * 1024
\* file_size > max_file_size
TooLarge(file_size) == (file_size - 1) \div (1024 * 1024) >= max_file_size_MiB
max_duration == 3 * 60 * 60

Clips ==
    { NoClip, Clip(max_duration, 640, 360), Clip(max_duration + 1, 640, 360),
      Clip(60, 639, 360), Clip(60, 640, 359) }

\* A stored file: an empty or unreadable file is no video VideoFileClip can open
StoredFiles(name) ==
    { [bytes |-> BytesOf(name, n), container |-> ContainerOf(name),
       clip |-> c, readable |-> r] :
        <<n, c, r>> \in { t \in (0..MaxFileLen) \X Clips \X BOOLEAN :
                            /\ (t[1] = 0 \/ ~t[3]) => t[2] = NoClip
                            /\ ~t[3] => t[1] = 1 } }

\* what NamedTemporaryFile(delete=False) leaves on disk
EmptyFile == [bytes |-> <<>>, container |-> "", clip |-> NoClip, readable |-> TRUE]

\* what an ffmpeg run that exits non-zero half way leaves on disk
PartialFile == [bytes |-> <<99>>, container |-> "", clip |-> NoClip, readable |-> TRUE]

\* the MP4 file a successful ffmpeg run writes from `file`
Transcoded(file) ==
    [bytes |-> [i \in 1..Len(file.bytes) |-> file.bytes[i] + 100],
     container |-> "video/mp4", clip |-> file.clip, readable |-> TRUE]

(***************************************************************************)
(* validate_video_file (app.py:555-628).  The result is the dict the code  *)
(* returns: its keys are exactly the keys the code sets.                   *)
(***************************************************************************)
validate_video_file(f, file_path) ==
    IF ~exists(f, file_path)
    THEN [valid |-> FALSE, reason |-> "File does not exist"]
    ELSE IF TooLarge(getsize(f, file_path))
    THEN [valid |-> FALSE, reason |-> "File too large"]
    ELSE IF ~f[file_path].readable \/ ~f[file_path].clip.ok
    THEN [valid |-> FALSE, reason |-> "Unable to process video"]
    ELSE LET video == f[file_path].clip
         IN  IF video.duration > max_duration
             THEN [valid |-> FALSE, reason |-> "Video too long"]
             ELSE IF video.width < 640 \/ video.height < 360
             THEN [valid |-> FALSE, reason |-> "Low resolution"]
             ELSE [valid |-> TRUE, duration |-> video.duration,
                   width |-> video.width, height |-> video.height,
                   fps |-> video.fps]

\* dict.get(key, default)
get(d, key, default) == IF key \in DOMAIN d THEN d[key] ELSE default

(***************************************************************************)
(* The transcode fallback manager (app.py:484-534, 630-670).               *)
(* An ffmpeg run is the environment's: it ends "ok" (exit 0, the output    *)
(* written), "fail" (an error, nothing written), "partial" (an error,      *)
(* part of the output written) or "hang" (the process never exits).        *)
(***************************************************************************)
Outcomes == {"ok", "fail", "partial", "hang"}

\* the timeout argument of the subprocess.run of method k (app.py:513-525,
\* 646-654): neither call passes one
subprocess_timeout(k) == "None"

\* subprocess.run raises TimeoutExpired on a process that does not exit
HasTimeout(k) == subprocess_timeout(k) # "None"

\* ffmpeg gives up at once, before it writes, on an input that it cannot
\* read or that is no video
OutcomesOn(f, input_path) ==
    IF access(f, input_path) /\ f[input_path].clip.ok
    THEN Outcomes ELSE {"fail"}

ffmpeg(f, input_path, output_path, outcome) ==
    IF outcome = "ok" THEN write(f, output_path, Transcoded(f[input_path]))
    ELSE IF outcome = "partial" THEN write(f, output_path, PartialFile)
    ELSE f

\* the k-th name tempfile.NamedTemporaryFile(suffix='.mp4', prefix='converted_') makes
TempName(k) == join(TEMP_DIR, <<"converted_">> \o str(k) \o <<".mp4">>)

\* convert_video_to_mp4: the value returned, or raised = TRUE
convert_video_to_mp4(f, n, input_path, output_path, outcome) ==
    IF ~FFMPEG_AVAILABLE
    THEN [fs |-> f, tmp_seq |-> n, raised |-> FALSE, isstr |-> TRUE, value |-> input_path]
    ELSE LET make == output_path = None
             out  == IF make THEN TempName(n + 1) ELSE output_path
             f1   == IF make THEN write(f, out, EmptyFile) ELSE f
             n1   == IF make THEN n + 1 ELSE n
         IN  [fs |-> ffmpeg(f1, input_path, out, outcome), tmp_seq |-> n1,
              raised |-> outcome # "ok", isstr |-> TRUE, value |-> out]

\* file_path + '.mp4'
PlusMp4(path) == [path EXCEPT !.name = Append(@, ".mp4")]

\* the second lambda: subprocess.run(..., check=True) returns a CompletedProcess
ffmpeg_preset(f, n, file_path, output_path, outcome) ==
    LET out == IF output_path # None THEN output_path ELSE PlusMp4(file_path)
    IN  [fs |-> ffmpeg(f, file_path, out, outcome), tmp_seq |-> n,
         raised |-> outcome # "ok", isstr |-> FALSE, value |-> out]

\* the third lambda
original_file(f, n, file_path) ==
    [fs |-> f, tmp_seq |-> n, raised |-> FALSE, isstr |-> TRUE, value |-> file_path]

NumMethods == 3

\* conversion_methods[k - 1]()
conversion_methods(k, f, n, file_path, output_path, outcome) ==
    IF k = 1 THEN convert_video_to_mp4(f, n, file_path, output_path, outcome)
    ELSE IF k = 2 THEN ffmpeg_preset(f, n, file_path, output_path, outcome)
    ELSE original_file(f, n, file_path)

\* the loop state of a call safe_convert_video(file_path, output_path)
NoJob ==
    [active |-> FALSE, file_path |-> None, output_path |-> None, method |-> 1,
     returned |-> FALSE, blocked |-> FALSE, result |-> None, last_error |-> 0,
     attempts |-> <<>>]

NewJob(file_path, output_path) ==
    [NoJob EXCEPT !.active = TRUE, !.file_path = file_path, !.output_path = output_path]

\* a loop that passes over the method after the one that raised
NextMethod_skip(k) == k + 2

\* the method the loop runs after method k raised
NextMethod(k) == k + 1

\* what safe_convert_video returns for the value its method returned
ReturnValue(r, file_path) == IF r.isstr THEN r.value ELSE file_path

\* One iteration of the loop over conversion_methods: the method returns and
\* safe_convert_video returns with it, or it raises and the loop goes on; after
\* the last method the function returns file_path.  A process that never exits
\* and has no timeout keeps the call inside subprocess.run for ever.
TryMethod(f, n, j, outcome) ==
    LET r == conversion_methods(j.method, f, n, j.file_path, j.output_path, outcome)
        a == Append(j.attempts, [method |-> j.method, ok |-> ~r.raised,
                                   outcome |-> outcome, wrote |-> r.value])
    IN  [fs |-> r.fs, tmp_seq |-> r.tmp_seq,
         job |-> IF outcome = "hang" /\ ~HasTimeout(j.method)
                 THEN [j EXCEPT !.blocked = TRUE]
                 ELSE IF ~r.raised
                 THEN [j EXCEPT !.returned = TRUE, !.attempts = a,
                                !.result = ReturnValue(r, j.file_path)]
                 ELSE IF NextMethod(j.method) > NumMethods
                 THEN [j EXCEPT !.returned = TRUE, !.attempts = a,
                                !.last_error = j.method, !.method = NextMethod(j.method),
                                !.result = j.file_path]
                 ELSE [j EXCEPT !.attempts = a, !.last_error = j.method,
                                !.method = NextMethod(j.method)]]

\* the outcomes the environment can give method k
OutcomesFor(f, j) ==
    IF (j.method = 1 /\ FFMPEG_AVAILABLE) \/ j.method = 2
    THEN OutcomesOn(f, j.file_path) ELSE {"none"}

RECURSIVE RunJob(_, _, _)
\* every way the loop of job j can run, to its return or to the subprocess
\* it waits on for ever, from file system f
RunJob(f, n, j) ==
    IF j.returned \/ j.blocked THEN {[fs |-> f, tmp_seq |-> n, job |-> j]}
    ELSE UNION { LET s == TryMethod(f, n, j, o) IN RunJob(s.fs, s.tmp_seq, s.job) :
                   o \in OutcomesFor(f, j) }

\* safe_convert_video(file_path, output_path) as one call
safe_convert_video(f, n, file_path, output_path) ==
    RunJob(f, n, NewJob(file_path, output_path))

(***************************************************************************)
(* Requests.  A request names a file and carries a Range header or none.   *)
(* The header is written from a description (form, first, last) that the   *)
(* model keeps beside the header's text.                                   *)
(***************************************************************************)
BytesEq == <<"b", "y", "t", "e", "s", "=">>

RangeNums == 0..(MaxFileLen + RangeSlack) \cup {12}

Ranges ==
    {[form |-> "absent", first |-> 0, last |-> 0], [form |-> "empty", first |-> 0, last |-> 0],
     [form |-> "unit", first |-> 0, last |-> 0]}
    \cup {[form |-> "closed", first |-> a, last |-> b] : a \in RangeNums, b \in RangeNums}
    \cup {[form |-> "open", first |-> a, last |-> 0] : a \in RangeNums}
    \cup {[form |-> "suffix", first |-> 0, last |-> b] : b \in RangeNums}

\* the text of the Range header of range description r
HeaderText(r) ==
    IF r.form = "closed" THEN BytesEq \o str(r.first) \o <<"-">> \o str(r.last)
    ELSE IF r.form = "open" THEN BytesEq \o str(r.first) \o <<"-">>
    ELSE IF r.form = "suffix" THEN BytesEq \o <<"-">> \o str(r.last)
    ELSE IF r.form = "unit" THEN BytesEq
    ELSE <<>>

\* request.headers of a request with range description r
HeadersOf(r) == IF r.form = "absent" THEN <<>> ELSE [Range |-> HeaderText(r)]

NoRequest == [filename |-> <<>>, range |-> [form |-> "absent", first |-> 0, last |-> 0],
              headers |-> <<>>]

(***************************************************************************)
(* re.search of the pattern  digits, dash, optional digits  (app.py:846).  *)
(***************************************************************************)
\* the end of the longest run of digits of h that starts at i (i - 1 if none)
RunEnd(h, i) ==
    CHOOSE j \in (i - 1)..Len(h) :
        /\ \A k \in i..j : IsDigit(h[k])
        /\ j = Len(h) \/ ~IsDigit(h[j + 1])

\* the positions where the pattern matches: digits, then a dash
MatchStarts(h) ==
    {i \in 1..Len(h) : /\ IsDigit(h[i])
                       /\ RunEnd(h, i) < Len(h)
                       /\ h[RunEnd(h, i) + 1] = "-"}

\* the leftmost match and its two groups, or matched = FALSE (None)
re_search(h) ==
    IF MatchStarts(h) = {} THEN [matched |-> FALSE, g1 |-> <<>>, g2 |-> <<>>]
    ELSE LET i == CHOOSE x \in MatchStarts(h) : \A y \in MatchStarts(h) : x <= y
             j == RunEnd(h, i)
         IN  [matched |-> TRUE, g1 |-> SubSeq(h, i, j),
              g2 |-> SubSeq(h, j + 2, RunEnd(h, j + 2))]

(***************************************************************************)
(* The responses of stream (app.py:794-909).                               *)
(***************************************************************************)
\* flash(message); redirect(url_for('index'))
Redirect(message) ==
    [status |-> 302, headers |-> [Location |-> "index"], body |-> <<>>, flash |-> message,
     on_close |-> {}]

NoResponse == [status |-> 0, headers |-> <<>>, body |-> <<>>, flash |-> "", on_close |-> {}]

\* the length with the + 1 of the inclusive end left out
RangeLength_exclusiveEnd(byte1, has_byte2, byte2, file_size) ==
    IF has_byte2 THEN byte2 - byte1 ELSE file_size - byte1

\* the length of an open-ended range taken to be the file size
RangeLength_wholeFile(byte1, has_byte2, byte2, file_size) ==
    IF has_byte2 THEN byte2 + 1 - byte1 ELSE file_size

\* app.py:854-857
RangeLength(byte1, has_byte2, byte2, file_size) ==
    IF has_byte2 THEN byte2 + 1 - byte1 ELSE file_size - byte1

\* f'bytes {byte1}-{byte1 + length - 1}/{file_size}'
ContentRange(byte1, length, file_size) ==
    <<"b", "y", "t", "e", "s", " ">> \o str(byte1) \o <<"-">>
        \o str(byte1 + length - 1) \o <<"/">> \o str(file_size)

\* The Range branch (app.py:844-874): the 206 response, or raised = TRUE when
\* match is None (groups() of None) or read() refuses the length.
RangeResponse(f, converted_path, file_size, range_header) ==
    LET match == re_search(range_header)
        byte1 == IF match.g1 # <<>> THEN int(match.g1) ELSE 0
        has_byte2 == match.g2 # <<>>
        byte2 == int(match.g2)
        length == RangeLength(byte1, has_byte2, byte2, file_size)
    IN  IF ~match.matched \/ ~CanRead(length)
        THEN [raised |-> TRUE, rv |-> NoResponse]
        ELSE [raised |-> FALSE,
              rv |-> [status |-> 206,
                      headers |-> ("Content-Type" :> "video/mp4")
                                  @@ ("Content-Range" :> ContentRange(byte1, length, file_size))
                                  @@ ("Accept-Ranges" :> "bytes")
                                  @@ ("Content-Length" :> str(length)),
                      body |-> read(f[converted_path].bytes, byte1, length),
                      flash |-> "", on_close |-> {}]]

\* The full response (app.py:886-898); its body is produced by generate()
FullResponse(safe_filename, file_size, mime_type, video_validation) ==
    [status |-> 200,
     headers |-> ("Content-Type" :> "video/mp4")
                 @@ ("Content-Disposition" :> safe_filename)
                 @@ ("Content-Length" :> str(file_size))
                 @@ ("X-Video-Original-Type" :> mime_type)
                 @@ ("X-Video-Metadata" :> get(video_validation, "metadata", "{}"))
                 @@ ("Accept-Ranges" :> "bytes"),
     body |-> <<>>, flash |-> "", on_close |-> {}]

\* werkzeug's secure_filename leaves the names of the model, made of letters
\* and an extension, as they are
secure_filename(filename) == filename

\* what a run of the handler leaves: the response, whether its body is the
\* generator, the file served, the stages run and the file system
Outcome(rv, lazy, path, st, f, n) ==
    [resp |-> rv, lazy |-> lazy, converted_path |-> path,
     stages |-> st, fs |-> f, tmp_seq |-> n, hung |-> FALSE]

\* the handler is inside a safe_convert_video that does not return
Hung(path, st, f, n) ==
    [Outcome(NoResponse, FALSE, path, st, f, n) EXCEPT !.hung = TRUE]

\* response.call_on_close(lambda: os.unlink(converted_path)) (app.py:900-902)
CloseCallbacks(file_path, converted_path) ==
    IF converted_path # file_path THEN {converted_path} ELSE {}

\* the clean-up done in the handler itself instead of being left to the close
FsAtReturn_unlinked(f, file_path, converted_path) ==
    IF converted_path # file_path THEN unlink(f, converted_path) ELSE f

\* the file system when stream returns its full response: the clean-up of
\* app.py:900-902 is only registered, nothing is unlinked yet
FsAtReturn(f, file_path, converted_path) == f

\* From app.py:832 on: the byte responder, on the file converted_path
Respond(f, n, st, safe_filename, file_path, converted_path, mime_type, video_validation, headers) ==
    IF ~access(f, converted_path)
    THEN Outcome(Redirect("Unable to read video file."), FALSE, converted_path, st, f, n)
    ELSE LET file_size == getsize(f, converted_path)
             has_range == "Range" \in DOMAIN headers /\ headers["Range"] # <<>>
             st2 == Append(st, "respond")
         IN  IF has_range
             THEN LET r == RangeResponse(f, converted_path, file_size, headers["Range"])
                  IN  IF r.raised
                      THEN Outcome(Redirect("An unexpected error occurred while streaming the video."),
                                   FALSE, converted_path, st2, f, n)
                      ELSE Outcome(r.rv, FALSE, converted_path, st2, f, n)
             ELSE Outcome([FullResponse(safe_filename, file_size, mime_type, video_validation)
                            EXCEPT !.on_close = CloseCallbacks(file_path, converted_path)],
                          TRUE, converted_path, st2,
                          FsAtReturn(f, file_path, converted_path), n)

\* stream from app.py:821 on, for a validated asset: the conversion of an
\* asset whose mime_type is not video/mp4, then the byte responder
stream_convert(f, n, st, safe_filename, file_path, mime_type, video_validation, headers) ==
    IF mime_type # "video/mp4"
    THEN { IF c.job.blocked
           THEN Hung(file_path, Append(st, "convert"), c.fs, c.tmp_seq)
           ELSE Respond(c.fs, c.tmp_seq, Append(st, "convert"), safe_filename, file_path,
                        c.job.result, mime_type, video_validation, headers) :
             c \in safe_convert_video(f, n, file_path, None) }
    ELSE { Respond(f, n, st, safe_filename, file_path, file_path, mime_type,
                   video_validation, headers) }

\* stream(filename) up to its return: every outcome the environment allows
stream(f, n, filename, headers) ==
    LET safe_filename == secure_filename(filename)
        file_path == join(UPLOAD_FOLDER, safe_filename)
    IN  IF ~exists(f, file_path)
        THEN {Outcome(Redirect("Video file not found."), FALSE, file_path, <<>>, f, n)}
        ELSE LET video_validation == validate_video_file(f, file_path)
                 st == <<"validate">>
             IN  IF ~video_validation.valid
                 THEN {Outcome(Redirect("Video processing error"), FALSE, file_path, st, f, n)}
                 ELSE stream_convert(f, n, st, safe_filename, file_path,
                                     get(video_validation, "mime_type", "video/mp4"),
                                     video_validation, headers)

(***************************************************************************)
(* generate() (app.py:877-884): one read of the open file.  The file is    *)
(* opened at the first read.  An open file is the file itself, not its     *)
(* path: while the path still names it (linked) its bytes are those the    *)
(* file system has there, also after a write in place; once the path was   *)
(* unlinked, the bytes are those the file had then (video_file).           *)
(***************************************************************************)
NoGen ==
    [path |-> None, pos |-> 0, exhausted |-> FALSE, opened |-> FALSE, linked |-> FALSE,
     video_file |-> <<>>, failed |-> FALSE]

\* the bytes of the file the generator has open
OpenBytes(f, g) == IF g.linked THEN f[g.path].bytes ELSE g.video_file

\* open(converted_path, 'rb'), once
Open(g) == IF g.opened THEN g ELSE [g EXCEPT !.opened = TRUE, !.linked = TRUE]

\* os.unlink(p) or os.remove(p) as the generator g sees it
Detach(g, f, p) ==
    IF g.opened /\ g.linked /\ g.path = p /\ exists(f, p)
    THEN [g EXCEPT !.linked = FALSE, !.video_file = f[p].bytes]
    ELSE g

\* generate() with its loop left out: one chunk, then the end
ReadChunk_once(f, g) ==
    IF g.pos > 0 THEN <<>> ELSE read(OpenBytes(f, g), g.pos, STREAM_CHUNK_SIZE)

\* a read that takes one byte more than the chunk size
ReadChunk_oversize(f, g) == read(OpenBytes(f, g), g.pos, STREAM_CHUNK_SIZE + 1)

\* video_file.read(chunk_size) at the generator's position
ReadChunk(f, g) == read(OpenBytes(f, g), g.pos, STREAM_CHUNK_SIZE)

(***************************************************************************)
(* The state machine.                                                      *)
(***************************************************************************)
\* no call of validate_video_file yet
NoCheck == [file_path |-> None, results |-> <<>>]

\* no request yet to a route of the application
\* NULL in the column thumbnail, '' as a file name
NoName == <<>>

\* no row of the table movies
NoMovie ==
    [id |-> 0, title |-> <<>>, filename |-> NoName, thumbnail |-> NoName,
     language |-> "", user_id |-> 0]

NoCall ==
    [route |-> "", user |-> 0, status |-> 0, flash |-> "", form |-> <<>>,
     movie |-> NoMovie]

\* the concurrent requests to /stream
Requests == {1, 2}

\* a request not made yet: the position of its handler, the loop state of its
\* conversion job, the target an ffmpeg process of the job has open, the
\* paths the job has written, the file its response reads and the paths its
\* close callbacks unlink
NoFlight ==
    [pc |-> "idle", job |-> NoJob, running |-> None, wrote |-> {}, path |-> None,
     on_close |-> {}, failed |-> FALSE]

NoFlights == [r \in Requests |-> NoFlight]

\* the tables are empty, nobody is logged in
InitOthers ==
    /\ users = {}
    /\ movies = {}
    /\ movie_seq = 0
    /\ current_user = 0
    /\ lastreq = NoCall
    /\ inflight = NoFlights
    /\ checked = NoCheck

UploadFolders ==
    UNION { [ {join(UPLOAD_FOLDER, nm) : nm \in S} ->
                UNION {StoredFiles(nm) : nm \in S} ] : S \in SUBSET StoredNames }

Init ==
    /\ fs \in {f \in UploadFolders : \A p \in DOMAIN f : f[p] \in StoredFiles(p.name)}
    /\ FFMPEG_AVAILABLE \in BOOLEAN
    /\ tmp_seq = 0
    /\ pc = "idle"
    /\ req = NoRequest
    /\ resp = NoResponse
    /\ gen = NoGen
    /\ stages = <<>>
    /\ job = NoJob
    /\ calls = 0
    /\ InitOthers

\* the handler has run to outcome o for the request (filename, range)
Returned(o, filename, range) ==
    /\ req' = [filename |-> filename, range |-> range, headers |-> HeadersOf(range)]
    /\ resp' = o.resp
    /\ gen' = IF o.lazy THEN [NoGen EXCEPT !.path = o.converted_path]
              ELSE [NoGen EXCEPT !.path = o.converted_path, !.exhausted = TRUE]
    /\ pc' = IF o.hung THEN "hung" ELSE IF o.lazy THEN "body" ELSE "close"
    /\ stages' = o.stages
    /\ fs' = o.fs
    /\ tmp_seq' = o.tmp_seq

\* GET /stream/<filename>: the handler runs to its return
Stream(filename, range) ==
    /\ pc = "idle"
    /\ \E o \in stream(fs, tmp_seq, filename, HeadersOf(range)) :
          Returned(o, filename, range)
    /\ UNCHANGED <<others, FFMPEG_AVAILABLE, job, calls>>

\* the server takes the next chunk of the body from generate() and sends it
GenerateNext ==
    /\ pc = "body"
    /\ IF ~gen.opened /\ ~exists(fs, gen.path)
       THEN \* open() raises FileNotFoundError: the response breaks off
            /\ gen' = [gen EXCEPT !.failed = TRUE]
            /\ pc' = "close"
            /\ resp' = resp
       ELSE LET g == Open(gen)
                data == ReadChunk(fs, g)
            IN  IF data # <<>>
                THEN /\ resp' = [resp EXCEPT !.body = @ \o data]
                     /\ gen' = [g EXCEPT !.pos = @ + Len(data)]
                     /\ pc' = pc
                ELSE /\ gen' = [g EXCEPT !.exhausted = TRUE]
                     /\ pc' = "close"
                     /\ resp' = resp
    /\ UNCHANGED <<others, fs, FFMPEG_AVAILABLE, tmp_seq, req, stages, job, calls>>

\* the client goes away while the body is being sent
ClientDisconnect ==
    /\ pc = "body"
    /\ pc' = "close"
    /\ UNCHANGED <<others, fs, FFMPEG_AVAILABLE, tmp_seq, req, resp, gen, stages, job, calls>>

RECURSIVE UnlinkAll(_, _)
UnlinkAll(f, paths) ==
    IF paths = {} THEN f
    ELSE LET p == CHOOSE x \in paths : TRUE IN UnlinkAll(unlink(f, p), paths \ {p})

\* the response is closed: its close callbacks run
Close ==
    /\ pc = "close"
    /\ fs' = UnlinkAll(fs, resp.on_close \cap DOMAIN fs)
    /\ pc' = "done"
    /\ UNCHANGED <<others, FFMPEG_AVAILABLE, tmp_seq, req, resp, gen, stages, job, calls>>

\* the next request can come
Finish ==
    /\ pc = "done"
    /\ pc' = "idle"
    /\ req' = NoRequest
    /\ resp' = NoResponse
    /\ gen' = NoGen
    /\ stages' = <<>>
    /\ UNCHANGED <<others, fs, FFMPEG_AVAILABLE, tmp_seq, job, calls>>

Next ==
    \/ \E filename \in FileNames, range \in Ranges : Stream(filename, range)
    \/ GenerateNext
    \/ ClientDisconnect
    \/ Close
    \/ Finish

Spec == Init /\ [][Next]_vars

(***************************************************************************)
(* safe_convert_video called on its own, one loop iteration at a time.     *)
(***************************************************************************)
OutputPaths == {None, join(TEMP_DIR, <<"out", ".mp4">>)}

CallSafeConvert(file_path, output_path) ==
    /\ pc = "idle"
    /\ ~job.active \/ job.returned
    /\ calls < MaxCalls
    /\ job' = NewJob(file_path, output_path)
    /\ calls' = calls + 1
    /\ UNCHANGED <<others, fs, FFMPEG_AVAILABLE, tmp_seq, pc, req, resp, gen, stages>>

ConvertTry ==
    /\ job.active /\ ~job.returned /\ ~job.blocked
    /\ \E o \in OutcomesFor(fs, job) :
        LET s == TryMethod(fs, tmp_seq, job, o)
        IN  /\ fs' = s.fs
            /\ tmp_seq' = s.tmp_seq
            /\ job' = s.job
    /\ UNCHANGED <<others, FFMPEG_AVAILABLE, pc, req, resp, gen, stages, calls>>

NextConvert ==
    \/ \E name \in FileNames, output_path \in OutputPaths :
          CallSafeConvert(join(UPLOAD_FOLDER, name), output_path)
    \/ ConvertTry

SpecConvert == Init /\ [][NextConvert]_vars

(***************************************************************************)
(* The conversion branch of stream (app.py:821-904) on its own: the        *)
(* handler for a validated asset, run with the asset's real MIME type as   *)
(* its mime_type, which is not video/mp4.  validate_video_file reports no  *)
(* mime_type, so Spec never enters this branch.                            *)
(***************************************************************************)
StreamConvertBranch(filename, range) ==
    /\ pc = "idle"
    /\ calls < MaxCalls
    /\ LET file_path == join(UPLOAD_FOLDER, secure_filename(filename))
       IN  /\ exists(fs, file_path)
           /\ validate_video_file(fs, file_path).valid
           /\ fs[file_path].container # "video/mp4"
           /\ \E o \in stream_convert(fs, tmp_seq, <<"validate">>, secure_filename(filename),
                                       file_path, fs[file_path].container,
                                       validate_video_file(fs, file_path), HeadersOf(range)) :
                 Returned(o, filename, range)
    /\ calls' = calls + 1
    /\ UNCHANGED <<others, FFMPEG_AVAILABLE, job>>

NextConvertBranch ==
    \/ \E filename \in FileNames, range \in Ranges : StreamConvertBranch(filename, range)
    \/ GenerateNext
    \/ ClientDisconnect
    \/ Close
    \/ Finish

SpecConvertBranch == Init /\ [][NextConvertBranch]_vars

(***************************************************************************)
(* Concurrent requests to /stream for one asset that is not MP4, each in   *)
(* the conversion branch (app.py:821-904) with the asset's real MIME type. *)
(* The handlers take turns one loop iteration of safe_convert_video at a   *)
(* time.  The ffmpeg process of the second strategy runs without -y        *)
(* (app.py:646-654): it looks whether its target exists when it starts,    *)
(* gives up if so, and writes the target when it comes to its end.         *)
(***************************************************************************)
\* the asset all concurrent requests ask for
SharedName == <<"b", ".mkv">>

SharedPath == join(UPLOAD_FOLDER, secure_filename(SharedName))

\* the paths that differ between file systems f and f2
Changed(f, f2) ==
    {p \in DOMAIN f2 : p \notin DOMAIN f \/ f2[p] # f[p]}

\* request r has run one iteration of the loop to state s, having written w
Iterated(r, s, w) ==
    /\ fs' = s.fs
    /\ tmp_seq' = s.tmp_seq
    /\ inflight' = [inflight EXCEPT ![r].job = s.job,
                                     ![r].running = None,
                                     ![r].wrote = @ \cup w,
                                     ![r].pc = IF s.job.blocked THEN "hung" ELSE @]

\* the handler of request r comes to the conversion
ConcStream(r) ==
    /\ inflight[r].pc = "idle"
    /\ inflight' = [inflight EXCEPT ![r].pc = "convert",
                                     ![r].job = NewJob(SharedPath, None)]
    /\ UNCHANGED <<fs, FFMPEG_AVAILABLE, tmp_seq, pc, req, resp, gen, stages, job, calls>>
    /\ UNCHANGED <<users, movies, movie_seq, current_user, lastreq, checked>>

\* one iteration of the loop of request r; for the second strategy, the
\* start of its ffmpeg process
ConcTry(r) ==
    /\ inflight[r].pc = "convert"
    /\ ~inflight[r].job.returned
    /\ inflight[r].running = None
    /\ LET j == inflight[r].job
           target == PlusMp4(j.file_path)
       IN  IF j.method = 2 /\ ~exists(fs, target)
           THEN /\ inflight' = [inflight EXCEPT ![r].running = target]
                /\ UNCHANGED <<fs, tmp_seq>>
           ELSE IF j.method = 2
           THEN Iterated(r, TryMethod(fs, tmp_seq, j, "fail"), {})
           ELSE \E o \in OutcomesFor(fs, j) :
                  LET s == TryMethod(fs, tmp_seq, j, o)
                  IN  Iterated(r, s, Changed(fs, s.fs))
    /\ UNCHANGED <<FFMPEG_AVAILABLE, pc, req, resp, gen, stages, job, calls>>
    /\ UNCHANGED <<users, movies, movie_seq, current_user, lastreq, checked>>

\* the ffmpeg process of the second strategy of request r comes to its end
ConcExit(r) ==
    /\ inflight[r].pc = "convert"
    /\ inflight[r].running # None
    /\ \E o \in OutcomesFor(fs, inflight[r].job) :
          Iterated(r, TryMethod(fs, tmp_seq, inflight[r].job, o),
                   IF o \in {"ok", "partial"} THEN {inflight[r].running} ELSE {})
    /\ UNCHANGED <<FFMPEG_AVAILABLE, pc, req, resp, gen, stages, job, calls>>
    /\ UNCHANGED <<users, movies, movie_seq, current_user, lastreq, checked>>

\* safe_convert_video has returned: the handler of request r builds its
\* response (no Range header) and returns
ConcRespond(r) ==
    /\ inflight[r].pc = "convert"
    /\ inflight[r].job.returned
    /\ LET o == Respond(fs, tmp_seq, <<"validate", "convert">>, secure_filename(SharedName),
                        SharedPath, inflight[r].job.result, fs[SharedPath].container,
                        validate_video_file(fs, SharedPath), <<>>)
       IN  /\ fs' = o.fs
           /\ inflight' = [inflight EXCEPT ![r].pc = IF o.lazy THEN "body" ELSE "close",
                                            ![r].path = o.converted_path,
                                            ![r].on_close = o.resp.on_close]
    /\ UNCHANGED <<FFMPEG_AVAILABLE, tmp_seq, pc, req, resp, gen, stages, job, calls>>
    /\ UNCHANGED <<users, movies, movie_seq, current_user, lastreq, checked>>

\* the body of the response of request r is read to its end, or open() fails
ConcRead(r) ==
    /\ inflight[r].pc = "body"
    /\ inflight' = [inflight EXCEPT ![r].pc = "close",
                                     ![r].failed = ~exists(fs, inflight[r].path)]
    /\ UNCHANGED <<fs, FFMPEG_AVAILABLE, tmp_seq, pc, req, resp, gen, stages, job, calls>>
    /\ UNCHANGED <<users, movies, movie_seq, current_user, lastreq, checked>>

\* the response of request r is closed: its close callbacks run
ConcClose(r) ==
    /\ inflight[r].pc = "close"
    /\ fs' = UnlinkAll(fs, inflight[r].on_close \cap DOMAIN fs)
    /\ inflight' = [inflight EXCEPT ![r].pc = "done"]
    /\ UNCHANGED <<FFMPEG_AVAILABLE, tmp_seq, pc, req, resp, gen, stages, job, calls>>
    /\ UNCHANGED <<users, movies, movie_seq, current_user, lastreq, checked>>

\* the upload folder holds the shared asset, a video that passes validation
InitConcurrent ==
    /\ Init
    /\ DOMAIN fs = {SharedPath}
    /\ validate_video_file(fs, SharedPath).valid

NextConcurrent ==
    \E r \in Requests :
        \/ ConcStream(r)
        \/ ConcTry(r)
        \/ ConcExit(r)
        \/ ConcRespond(r)
        \/ ConcRead(r)
        \/ ConcClose(r)

SpecConcurrent == InitConcurrent /\ [][NextConcurrent]_vars

(***************************************************************************)
(* Accounts: register, login and logout (app.py:911-1048).  A username or  *)
(* password is the sequence of its characters.                             *)
(***************************************************************************)
Whitespace == {" ", "\n"}

Letters ==
    {"a", "b", "c", "d", "e", "f", "g", "h", "i", "j", "k", "l", "m",
     "n", "o", "p", "q", "r", "s", "t", "u", "v", "w", "x", "y", "z",
     "A", "B", "C", "D", "E", "F", "G", "H", "I", "J", "K", "L", "M",
     "N", "O", "P", "Q", "R", "S", "T", "U", "V", "W", "X", "Y", "Z"}

RECURSIVE lstrip(_)
lstrip(t) == IF t # <<>> /\ t[1] \in Whitespace THEN lstrip(Tail(t)) ELSE t

RECURSIVE rstrip(_)
rstrip(t) ==
    IF t # <<>> /\ t[Len(t)] \in Whitespace THEN rstrip(SubSeq(t, 1, Len(t) - 1)) ELSE t

\* str.strip()
strip(t) == rstrip(lstrip(t))

\* re.match(r'^[a-zA-Z0-9_]+$', username) on a stripped username
ValidUsername(username) ==
    /\ username # <<>>
    /\ \A i \in 1..Len(username) :
          username[i] \in Letters \/ IsDigit(username[i]) \/ username[i] = "_"

\* the salts bcrypt may draw
Salts == {1, 2}

\* bcrypt.generate_password_hash(password) with the salt drawn: the hash
\* carries its salt and a digest that only this salt and password give
generate_password_hash(password, salt) ==
    [salt |-> salt, digest |-> <<"bcrypt", salt, password>>]

\* a check that only asks whether the row has a hash
check_password_hash_any(pw_hash, password) == pw_hash.digest # <<>>

\* bcrypt.check_password_hash(pw_hash, password): the password hashed with
\* the salt of pw_hash gives pw_hash
check_password_hash(pw_hash, password) ==
    generate_password_hash(password, pw_hash.salt) = pw_hash

\* User.query.filter_by(username=username): the rows with that username
filter_by_username(username) == {u \in users : u.username = username}

\* the names and passwords a client may send
Usernames ==
    { <<"b", "o", "b">>, <<" ", "b", "o", "b">>, <<"a", "m", "y">>,
      <<"a", "l">>, <<"a", "-", "b">>, <<>> }

Passwords ==
    { <<"s", "e", "c", "r", "e", "t">>, <<"s", "e", "c", "r", "e", "T">>,
      <<"s", "h", "o", "r", "t">>, <<>> }

\* the answer to a request: who asked, what was sent, the status and the
\* message of the answer, and the row the handler loaded, if any
Answer(route, status, flash, form) ==
    [route |-> route, user |-> current_user, status |-> status, flash |-> flash,
     form |-> form, movie |-> NoMovie]

\* what register answers and whether it adds the row
register(username, password, commit_ok) ==
    IF username = <<>> THEN [flash |-> "Username cannot be empty", add |-> FALSE]
    ELSE IF Len(username) < 3
    THEN [flash |-> "Username must be at least 3 characters long", add |-> FALSE]
    ELSE IF Len(password) < 6
    THEN [flash |-> "Password must be at least 6 characters long", add |-> FALSE]
    ELSE IF ~ValidUsername(username)
    THEN [flash |-> "Username can only contain letters, numbers, and underscores",
          add |-> FALSE]
    ELSE IF filter_by_username(username) # {}
    THEN [flash |-> "Username already exists", add |-> FALSE]
    ELSE IF ~commit_ok THEN [flash |-> "A database error occurred", add |-> FALSE]
    ELSE [flash |-> "Registration successful. Please log in.", add |-> TRUE]

\* POST /register
Register(form, salt, commit_ok) ==
    /\ pc = "idle"
    /\ LET username == strip(form.username)
           r == register(username, form.password, commit_ok)
       IN  /\ users' = IF r.add
                       THEN users \cup {[id |-> Cardinality(users) + 1,
                                         username |-> username,
                                         password_hash |->
                                             generate_password_hash(form.password, salt)]}
                       ELSE users
           /\ lastreq' = Answer("register", 302, r.flash, form)
    /\ UNCHANGED <<fs, FFMPEG_AVAILABLE, tmp_seq, pc, req, resp, gen, stages, job, calls>>
    /\ UNCHANGED <<movies, movie_seq, current_user, inflight, checked>>

\* POST /login
Login(form) ==
    /\ pc = "idle"
    /\ IF form.username = <<>> \/ form.password = <<>>
       THEN /\ lastreq' = Answer("login", 302, "Username and password are required", form)
            /\ current_user' = current_user
       ELSE LET found == filter_by_username(form.username)
                user == CHOOSE u \in found : \A v \in found : u.id <= v.id
                ok == /\ found # {}
                      /\ check_password_hash(user.password_hash, form.password)
            IN  IF ok
                THEN /\ current_user' = user.id
                     /\ lastreq' = Answer("login", 302, "Login successful", form)
                ELSE /\ current_user' = current_user
                     /\ lastreq' = Answer("login", 302, "Invalid username or password", form)
    /\ UNCHANGED <<fs, FFMPEG_AVAILABLE, tmp_seq, pc, req, resp, gen, stages, job, calls>>
    /\ UNCHANGED <<users, movies, movie_seq, inflight, checked>>

\* the answer of @login_required to a client that is not logged in
Unauthorized(route, form) == Answer(route, 302, "Please log in to access this page.", form)

\* GET /logout
Logout ==
    /\ pc = "idle"
    /\ IF current_user = 0
       THEN lastreq' = Unauthorized("logout", <<>>)
       ELSE lastreq' = Answer("logout", 302, "", <<>>)
    /\ current_user' = 0
    /\ UNCHANGED <<fs, FFMPEG_AVAILABLE, tmp_seq, pc, req, resp, gen, stages, job, calls>>
    /\ UNCHANGED <<users, movies, movie_seq, inflight, checked>>

\* a fresh deployment: empty folders, empty tables
InitApp ==
    /\ fs = [p \in {} |-> EmptyFile]
    /\ FFMPEG_AVAILABLE \in BOOLEAN
    /\ tmp_seq = 0
    /\ pc = "idle"
    /\ req = NoRequest
    /\ resp = NoResponse
    /\ gen = NoGen
    /\ stages = <<>>
    /\ job = NoJob
    /\ calls = 0
    /\ InitOthers

Forms == [username : Usernames, password : Passwords]

NextAuth ==
    \/ \E form \in Forms, salt \in Salts, commit_ok \in BOOLEAN :
          Register(form, salt, commit_ok)
    \/ \E form \in Forms : Login(form)
    \/ Logout

SpecAuth == InitApp /\ [][NextAuth]_vars

(***************************************************************************)
(* The movie library: upload, edit_movie, delete_movie (app.py:1050-1216,  *)
(* 1295-1487) next to /stream.  Each handler runs to its return in one     *)
(* step; the body of a 200 response of /stream is read between them.       *)
(***************************************************************************)
\* the rows the table movies is given in all
MaxMovies == 1
\* the unique ids (uuid4) drawn for thumbnail names
MaxUnique == 1

THUMBNAIL_FOLDER == "thumbnails"

LANGUAGES == {"English", "Hindi", "Tamil", "Malayalam"}

ALLOWED_EXTENSIONS ==
    {".mp4", ".avi", ".mov", ".mkv", ".flv", ".wmv", ".webm", ".mpeg", ".mpg", ".m4v",
     ".divx"}

\* '.' in filename and its last extension is an allowed one
allowed_file(filename) == filename # <<>> /\ filename[Len(filename)] \in ALLOWED_EXTENSIONS

\* the names a client may give the file it uploads
UploadNames == {<<"a", ".mp4">>, <<"d", ".txt">>, <<>>}

\* the files a client may upload under a name: two videos that pass the
\* validation, of different sizes, and one that VideoFileClip cannot open
UploadFiles(name) ==
    IF name = <<>> THEN {EmptyFile}
    ELSE { [bytes |-> BytesOf(name, 1), container |-> ContainerOf(name),
            clip |-> Clip(60, 640, 360), readable |-> TRUE],
           [bytes |-> BytesOf(name, MaxFileLen), container |-> ContainerOf(name),
            clip |-> Clip(60, 640, 360), readable |-> TRUE],
           [bytes |-> BytesOf(name, 2), container |-> ContainerOf(name),
            clip |-> NoClip, readable |-> TRUE] }

\* the thumbnail generate_thumbnail makes, in static/thumbnails
ThumbFile == [bytes |-> <<7>>, container |-> "image/jpeg", clip |-> NoClip, readable |-> TRUE]

\* f"{base_filename}_thumb_{unique_id}.jpg", the k-th unique id
ThumbName(filename, k) == <<filename[1], "_thumb_">> \o str(k) \o <<".jpg">>

\* f"{base_filename}_{unique_id}{ext}" of a thumbnail sent to edit_movie
NewThumbName(k) == <<"thumb", "_">> \o str(k) \o <<".png">>

\* Movie.query.get(movie_id): the rows with that id
get_movie(movie_id) == {m \in movies : m.id = movie_id}

\* the check of the uploader left out
IsUploader_anyone(movie, user_id) == TRUE

\* movie.user_id == current_user.id
IsUploader(movie, user_id) == movie.user_id = user_id

\* what the environment does to one upload: how file.save ends, whether a
\* thumbnail can be made, whether the commit goes through
UploadEnvs == [save : {"ok", "timeout", "error"}, thumb_ok : BOOLEAN, commit_ok : BOOLEAN]

\* upload (POST) by a logged-in user, to its return
upload(f, g, n, form, env) ==
    LET filename == secure_filename(form.filename)
        file_path == join(UPLOAD_FOLDER, filename)
        Rejected(status, message, f1, g1) ==
            [status |-> status, message |-> message, fs |-> f1, gen |-> g1,
             tmp_seq |-> n, movies |-> movies, movie_seq |-> movie_seq]
    IN  IF form.filename = <<>> THEN Rejected(400, "No selected file.", f, g)
        ELSE IF ~allowed_file(form.filename)
        THEN Rejected(400, "Invalid file type. Please upload a video file.", f, g)
        ELSE IF env.save = "timeout"
        THEN \* file.save has opened the path for writing and written a part
             LET part == write(f, file_path, PartialFile)
             IN  Rejected(408, "File upload timed out. Please try a smaller file.",
                          unlink(part, file_path), Detach(g, part, file_path))
        ELSE IF env.save = "error"
        THEN Rejected(500, "Thread execution error",
                      unlink(f, file_path), Detach(g, f, file_path))
        ELSE LET saved == write(f, file_path, form.file)
                 video_validation == validate_video_file(saved, file_path)
             IN  IF ~video_validation.valid
                 THEN Rejected(400, get(video_validation, "reason", "Invalid video file"),
                               unlink(saved, file_path), Detach(g, saved, file_path))
                 ELSE LET n1 == IF env.thumb_ok THEN n + 1 ELSE n
                          thumbnail_filename ==
                              IF env.thumb_ok THEN ThumbName(filename, n1) ELSE NoName
                          f2 == IF env.thumb_ok
                                THEN write(saved, join(THUMBNAIL_FOLDER, thumbnail_filename),
                                           ThumbFile)
                                ELSE saved
                          new_movie == [id |-> movie_seq + 1, title |-> form.title,
                                        filename |-> filename,
                                        thumbnail |-> thumbnail_filename,
                                        language |-> form.language,
                                        user_id |-> current_user]
                      IN  IF ~env.commit_ok
                          THEN [status |-> 500, message |-> "Upload failed",
                                fs |-> unlink(f2, file_path),
                                gen |-> Detach(g, f2, file_path), tmp_seq |-> n1,
                                movies |-> movies, movie_seq |-> movie_seq]
                          ELSE [status |-> 201, message |-> "Movie uploaded successfully",
                                fs |-> f2, gen |-> g, tmp_seq |-> n1,
                                movies |-> movies \cup {new_movie},
                                movie_seq |-> movie_seq + 1]

\* POST /upload
Upload(form, env) ==
    /\ current_user # 0 /\ upload(fs, gen, tmp_seq, form, env).status = 201
       => movie_seq < MaxMovies
    /\ env.thumb_ok => tmp_seq < MaxUnique
    /\ IF current_user = 0
       THEN /\ lastreq' = Unauthorized("upload", [filename |-> form.filename])
            /\ UNCHANGED <<fs, gen, tmp_seq, movies, movie_seq>>
       ELSE LET u == upload(fs, gen, tmp_seq, form, env)
            IN  /\ lastreq' = Answer("upload", u.status, u.message,
                                     [filename |-> form.filename])
                /\ fs' = u.fs
                /\ gen' = u.gen
                /\ tmp_seq' = u.tmp_seq
                /\ movies' = u.movies
                /\ movie_seq' = u.movie_seq
    /\ UNCHANGED <<FFMPEG_AVAILABLE, pc, req, resp, stages, job, calls>>
    /\ UNCHANGED <<users, current_user, inflight, checked>>

\* POST /delete_movie/<movie_id>
DeleteMovie(movie_id, commit_ok) ==
    /\ LET form == [movie_id |-> movie_id]
           found == get_movie(movie_id)
           movie == CHOOSE m \in found : TRUE
       IN  IF current_user = 0
           THEN /\ lastreq' = Unauthorized("delete_movie", form)
                /\ UNCHANGED <<fs, gen, movies>>
           ELSE IF found = {}
           THEN \* get_or_404 raises NotFound, which the outer except takes
                /\ lastreq' = Answer("delete_movie", 302, "An unexpected error occurred.", form)
                /\ UNCHANGED <<fs, gen, movies>>
           ELSE IF ~IsUploader(movie, current_user)
           THEN /\ lastreq' = [Answer("delete_movie", 302,
                                      "You are not authorized to delete this movie.", form)
                                  EXCEPT !.movie = movie]
                /\ UNCHANGED <<fs, gen, movies>>
           ELSE LET movie_path == join(UPLOAD_FOLDER, movie.filename)
                    thumbnail_path == join(THUMBNAIL_FOLDER, movie.thumbnail)
                    f1 == IF exists(fs, movie_path) THEN unlink(fs, movie_path) ELSE fs
                    f2 == IF movie.thumbnail # NoName /\ exists(f1, thumbnail_path)
                          THEN unlink(f1, thumbnail_path) ELSE f1
                IN  /\ fs' = f2
                    /\ gen' = Detach(gen, fs, movie_path)
                    /\ movies' = IF commit_ok THEN movies \ {movie} ELSE movies
                    /\ lastreq' = [Answer("delete_movie", 302,
                                          IF commit_ok THEN "Movie deleted successfully!"
                                          ELSE "Failed to delete movie. Please try again.",
                                          form)
                                      EXCEPT !.movie = movie]
    /\ UNCHANGED <<FFMPEG_AVAILABLE, tmp_seq, pc, req, resp, stages, job, calls>>
    /\ UNCHANGED <<users, movie_seq, current_user, inflight, checked>>

\* what a client may send to edit_movie: a title, a language, and perhaps a
\* new thumbnail (an image that passes the checks of app.py:1109 and 1131)
EditForms ==
    { [title |-> <<"N">>, language |-> "Hindi", thumbnail |-> FALSE],
      [title |-> <<"N">>, language |-> "Hindi", thumbnail |-> TRUE],
      [title |-> <<" ">>, language |-> "Hindi", thumbnail |-> FALSE],
      [title |-> <<"N">>, language |-> "Klingon", thumbnail |-> FALSE] }

\* POST /edit_movie/<movie_id>
EditMovie(movie_id, form, commit_ok) ==
    /\ form.thumbnail => tmp_seq < MaxUnique
    /\ LET found == get_movie(movie_id)
           movie == CHOOSE m \in found : TRUE
           args == [movie_id |-> movie_id, title |-> form.title, language |-> form.language]
           title == strip(form.title)
       IN  IF current_user = 0
           THEN /\ lastreq' = Unauthorized("edit_movie", args)
                /\ UNCHANGED <<fs, tmp_seq, movies>>
           ELSE IF found = {}
           THEN /\ lastreq' = Answer("edit_movie", 302,
                                     "An unexpected error occurred. Please try again.", args)
                /\ UNCHANGED <<fs, tmp_seq, movies>>
           ELSE IF ~IsUploader(movie, current_user)
           THEN /\ lastreq' = [Answer("edit_movie", 302,
                                      "You are not authorized to edit this movie.", args)
                                  EXCEPT !.movie = movie]
                /\ UNCHANGED <<fs, tmp_seq, movies>>
           ELSE IF title = <<>>
           THEN /\ lastreq' = [Answer("edit_movie", 200, "Movie title cannot be empty.", args)
                                  EXCEPT !.movie = movie]
                /\ UNCHANGED <<fs, tmp_seq, movies>>
           ELSE IF form.language \notin LANGUAGES
           THEN /\ lastreq' = [Answer("edit_movie", 200, "Please select a valid language.",
                                      args)
                                  EXCEPT !.movie = movie]
                /\ UNCHANGED <<fs, tmp_seq, movies>>
           ELSE LET n1 == IF form.thumbnail THEN tmp_seq + 1 ELSE tmp_seq
                    edited == [movie EXCEPT !.title = title, !.language = form.language,
                                            !.thumbnail = IF form.thumbnail
                                                          THEN NewThumbName(n1) ELSE @]
                IN  /\ tmp_seq' = n1
                    /\ fs' = IF form.thumbnail
                             THEN write(fs, join(THUMBNAIL_FOLDER, NewThumbName(n1)), ThumbFile)
                             ELSE fs
                    /\ movies' = IF commit_ok THEN (movies \ {movie}) \cup {edited}
                                 ELSE movies
                    /\ lastreq' = [Answer("edit_movie", IF commit_ok THEN 302 ELSE 200,
                                          IF commit_ok THEN "Movie details updated successfully!"
                                          ELSE "An error occurred while updating the movie. Please try again.",
                                          args)
                                      EXCEPT !.movie = movie]
    /\ UNCHANGED <<FFMPEG_AVAILABLE, pc, req, resp, gen, stages, job, calls>>
    /\ UNCHANGED <<users, movie_seq, current_user, inflight, checked>>

\* GET /stream/<filename> by the client, logged in or not
StreamRequest(filename, range) ==
    /\ pc = "idle"
    /\ \E o \in stream(fs, tmp_seq, filename, HeadersOf(range)) :
          /\ Returned(o, filename, range)
          /\ lastreq' = Answer("stream", o.resp.status, o.resp.flash,
                               [filename |-> filename])
    /\ UNCHANGED <<FFMPEG_AVAILABLE, job, calls>>
    /\ UNCHANGED <<users, movies, movie_seq, current_user, inflight, checked>>

\* two accounts exist, as two registrations have left them
Accounts ==
    { [id |-> 1, username |-> <<"b", "o", "b">>,
       password_hash |-> generate_password_hash(<<"s", "e", "c", "r", "e", "t">>, 1)],
      [id |-> 2, username |-> <<"a", "m", "y">>,
       password_hash |-> generate_password_hash(<<"s", "e", "c", "r", "e", "T">>, 2)] }

\* the forms with which the two log in
AccountForms ==
    { [username |-> <<"b", "o", "b">>, password |-> <<"s", "e", "c", "r", "e", "t">>],
      [username |-> <<"a", "m", "y">>, password |-> <<"s", "e", "c", "r", "e", "T">>] }

InitLibrary ==
    /\ fs = [p \in {} |-> EmptyFile]
    /\ FFMPEG_AVAILABLE = TRUE
    /\ tmp_seq = 0
    /\ pc = "idle"
    /\ req = NoRequest
    /\ resp = NoResponse
    /\ gen = NoGen
    /\ stages = <<>>
    /\ job = NoJob
    /\ calls = 0
    /\ users = Accounts
    /\ movies = {}
    /\ movie_seq = 0
    /\ current_user = 0
    /\ lastreq = NoCall
    /\ inflight = NoFlights
    /\ checked = NoCheck

LibraryRanges ==
    {[form |-> "absent", first |-> 0, last |-> 0], [form |-> "closed", first |-> 0, last |-> 0]}

UploadForms ==
    UNION { [filename : {name}, file : UploadFiles(name), title : {<<"M">>},
             language : {"English"}] : name \in UploadNames }

NextLibrary ==
    \/ \E form \in AccountForms : Login(form)
    \/ Logout
    \/ \E form \in UploadForms, env \in UploadEnvs : Upload(form, env)
    \/ \E movie_id \in 1..MaxMovies, commit_ok \in BOOLEAN : DeleteMovie(movie_id, commit_ok)
    \/ \E movie_id \in 1..MaxMovies, form \in EditForms, commit_ok \in BOOLEAN :
          EditMovie(movie_id, form, commit_ok)

SpecLibrary == InitLibrary /\ [][NextLibrary]_vars

\* the library with a client of /stream: the handler of /stream runs to its
\* return in one step, and the reads of its body generator take their turns
\* among the other requests
NextLibraryStream ==
    \/ NextLibrary
    \/ \E filename \in UploadNames \ {<<>>}, range \in LibraryRanges :
          StreamRequest(filename, range)
    \/ GenerateNext
    \/ ClientDisconnect
    \/ Close
    \/ Finish

SpecLibraryStream == InitLibrary /\ [][NextLibraryStream]_vars

(***************************************************************************)
(* validate_video_file called on its own, again and again (app.py:555-628).*)
(***************************************************************************)
\* the validation followed by the removal of a file found invalid, as upload
\* does after its own call
FsAfterValidate_unlinkInvalid(f, file_path) ==
    IF exists(f, file_path) /\ ~validate_video_file(f, file_path).valid
    THEN unlink(f, file_path) ELSE f

\* the file system after validate_video_file(file_path): the function tests
\* the path, takes its size and opens it for reading, and writes nothing
FsAfterValidate(f, file_path) == f

\* the results of the last two calls in a row on one path
LastTwo(rs) == IF Len(rs) > 2 THEN SubSeq(rs, Len(rs) - 1, Len(rs)) ELSE rs

ValidateCall(file_path) ==
    /\ pc = "idle"
    /\ checked' = [file_path |-> file_path,
                   results |-> LastTwo(Append(IF checked.file_path = file_path
                                              THEN checked.results ELSE <<>>,
                                              validate_video_file(fs, file_path)))]
    /\ fs' = FsAfterValidate(fs, file_path)
    /\ UNCHANGED <<FFMPEG_AVAILABLE, tmp_seq, pc, req, resp, gen, stages, job, calls>>
    /\ UNCHANGED <<users, movies, movie_seq, current_user, lastreq, inflight>>

NextValidate == \E name \in FileNames : ValidateCall(join(UPLOAD_FOLDER, name))

SpecValidate == Init /\ [][NextValidate]_vars

(***************************************************************************)
(* Properties of the Range handling of stream.                             *)
(***************************************************************************)
\* the path the request in flight asks for
ReqPath == join(UPLOAD_FOLDER, req.filename)

\* stream has returned its response to the request in flight
Answered == pc \in {"body", "close", "done"}

\* the asset asked for exists and passes validation
ValidAsset == exists(fs, ReqPath) /\ validate_video_file(fs, ReqPath).valid

AssetBytes == fs[ReqPath].bytes

Size == Len(AssetBytes)

\* the text  bytes a-b/size
RangeText(a, b, size) ==
    <<"b", "y", "t", "e", "s", " ">> \o str(a) \o <<"-">> \o str(b) \o <<"/">> \o str(size)

\* the text  bytes */size
UnsatisfiedText(size) == <<"b", "y", "t", "e", "s", " ", "*", "/">> \o str(size)

HeaderIs(name, value) == name \in DOMAIN resp.headers /\ resp.headers[name] = value

\* C1: a request with Range: bytes=start-end, 0 <= start <= end < size, is
\* answered 206 with exactly the bytes start..end of the file, Content-Length
\* end - start + 1 and Content-Range bytes start-end/size.
C1_ClosedRange ==
    (/\ Answered /\ ValidAsset
     /\ req.range.form = "closed"
     /\ req.range.first <= req.range.last /\ req.range.last < Size)
    => /\ resp.status = 206
       /\ resp.body = SubSeq(AssetBytes, req.range.first + 1, req.range.last + 1)
       /\ Len(resp.body) = req.range.last - req.range.first + 1
       /\ HeaderIs("Content-Length", str(req.range.last - req.range.first + 1))
       /\ HeaderIs("Content-Range", RangeText(req.range.first, req.range.last, Size))

C1_Witness ==
    /\ pc = "done" /\ ValidAsset
    /\ req.range.form = "closed" /\ req.range.first = 1 /\ req.range.last = 2
    /\ Size = 3 /\ resp.status = 206 /\ Len(resp.body) = 2

\* C2 (as claimed): a Range whose start is at or past the size of the file is
\* answered 416 with an empty body and Content-Range bytes */size.
C2_StartPastEnd ==
    (/\ Answered /\ ValidAsset
     /\ req.range.form \in {"closed", "open"}
     /\ req.range.first >= Size)
    => /\ resp.status = 416
       /\ resp.body = <<>>
       /\ HeaderIs("Content-Range", UnsatisfiedText(Size))

\* C3: a valid asset asked for without a Range header is answered 200 with
\* Content-Length the file size, and the body generator, run to its end,
\* produces the whole file.
C3_FullContent ==
    (Answered /\ ValidAsset /\ req.range.form = "absent")
    => /\ resp.status = 200
       /\ HeaderIs("Content-Length", str(Size))
       /\ gen.exhausted => resp.body = AssetBytes

C3_Witness ==
    /\ pc = "done" /\ ValidAsset /\ req.range.form = "absent"
    /\ gen.exhausted /\ resp.status = 200
    /\ Len(resp.body) > STREAM_CHUNK_SIZE

\* C4: a request with Range: bytes=start-, 0 <= start < size, is answered 206
\* with Content-Range bytes start-(size-1)/size, Content-Length size - start and
\* the last size - start bytes of the file.
C4_OpenRange ==
    (/\ Answered /\ ValidAsset
     /\ req.range.form = "open" /\ req.range.first < Size)
    => /\ resp.status = 206
       /\ HeaderIs("Content-Range", RangeText(req.range.first, Size - 1, Size))
       /\ HeaderIs("Content-Length", str(Size - req.range.first))
       /\ resp.body = SubSeq(AssetBytes, req.range.first + 1, Size)
       /\ Len(resp.body) = Size - req.range.first

C4_Witness ==
    /\ pc = "done" /\ ValidAsset
    /\ req.range.form = "open" /\ req.range.first = 1 /\ Size = 3
    /\ resp.status = 206 /\ Len(resp.body) = 2

\* C5 (as claimed): a Range with start > end is answered 416 with an empty
\* body: no bytes of the file, no 206 and no redirect.
C5_StartAfterEnd ==
    (/\ Answered /\ ValidAsset
     /\ req.range.form = "closed" /\ req.range.first > req.range.last)
    => /\ resp.status = 416
       /\ resp.body = <<>>

\* C6 (as claimed): a Range header with no digits before the dash is answered
\* 416 with Content-Range bytes */size.
C6_UnparsableRange ==
    (/\ Answered /\ ValidAsset
     /\ req.range.form \in {"suffix", "unit"})
    => /\ resp.status = 416
       /\ HeaderIs("Content-Range", UnsatisfiedText(Size))

\* C7 (as claimed): every 206 response describes a range start <= end < size
\* in its Content-Range, and its Content-Length is the number of body bytes.
C7_PartialContentWellFormed ==
    (Answered /\ resp.status = 206)
    => /\ HeaderIs("Content-Length", str(Len(resp.body)))
       /\ \E a \in 0..(Size - 1) : \E b \in a..(Size - 1) :
              HeaderIs("Content-Range", RangeText(a, b, Size))

\* C8 (as claimed): the stages of a request run in the order validation,
\* transcode manager (only for an asset that is not MP4), byte responder, and
\* bytes of an asset whose container is not MP4 are served only after the
\* transcode manager was invoked.
C8_StageOrder ==
    Answered =>
        /\ stages \in {<<>>, <<"validate">>, <<"validate", "respond">>,
                       <<"validate", "convert">>, <<"validate", "convert", "respond">>}
        /\ (resp.status \in {200, 206} /\ fs[ReqPath].container # "video/mp4")
              => \E i \in 1..Len(stages) : stages[i] = "convert"

(***************************************************************************)
(* Properties of safe_convert_video.                                       *)
(***************************************************************************)
\* C9: the strategies are tried in the order 1, 2, 3; every strategy before
\* the last one tried has failed, none is tried after one has succeeded, and
\* a call that comes to strategy 3 ends there, returning the original path.
C9_StrategyOrder ==
    job.active =>
        /\ \A i \in 1..Len(job.attempts) :
              /\ job.attempts[i].method = i
              /\ i < Len(job.attempts) => ~job.attempts[i].ok
        /\ Len(job.attempts) <= NumMethods
        /\ ~job.returned => /\ job.method = Len(job.attempts) + 1
                            /\ \A i \in 1..Len(job.attempts) : ~job.attempts[i].ok
        /\ job.returned => /\ job.attempts # <<>>
                           /\ job.attempts[Len(job.attempts)].ok
        /\ Len(job.attempts) = NumMethods
              => job.returned /\ job.result = job.file_path

C9_Witness ==
    /\ job.active /\ job.returned
    /\ Len(job.attempts) = NumMethods
    /\ job.attempts[1].outcome = "fail" /\ job.attempts[2].outcome = "partial"
    /\ job.result = job.file_path

\* C10 (as claimed): safe_convert_video returns the path of the file the
\* successful transcoding strategy wrote, and the original path only when
\* every transcoding strategy failed.
C10_ReturnsConverted ==
    (job.active /\ job.returned) =>
        \A i \in 1..Len(job.attempts) :
            job.attempts[i].outcome = "ok"
                => /\ job.result = job.attempts[i].wrote
                   /\ job.result # job.file_path

(***************************************************************************)
(* Properties of the responses of stream.                                  *)
(***************************************************************************)
\* the file whose bytes the response carries is the asset itself, unconverted
ServesOriginal == Answered /\ resp.status \in {200, 206} /\ gen.path = ReqPath

\* C11 (as claimed): when the bytes served are those of the original file
\* and that file is not MP4, the Content-Type is the file's own MIME type and
\* not video/mp4.
C11_OriginalContentType ==
    (ServesOriginal /\ exists(fs, ReqPath) /\ fs[ReqPath].container # "video/mp4")
    => /\ HeaderIs("Content-Type", fs[ReqPath].container)
       /\ ~HeaderIs("Content-Type", "video/mp4")

\* C17 (as claimed): a request for a file that is not in the upload folder is
\* answered 404, and neither validation nor conversion nor a read happens.
C17_MissingAsset ==
    (Answered /\ ~exists(fs, ReqPath))
    => /\ resp.status = 404
       /\ stages = <<>>
       /\ resp.body = <<>>

\* C18 (as claimed): every response for an asset that exists carries
\* Accept-Ranges: bytes.
C18_AcceptRanges ==
    (Answered /\ exists(fs, ReqPath)) => HeaderIs("Accept-Ranges", "bytes")

\* the message of the handler's except branch (app.py:906-909)
UnexpectedMessage == "An unexpected error occurred while streaming the video."

\* C19 (as claimed): a request always gets a response, and an exception
\* raised inside the handler is answered with status 500.
C19_ErrorStatus ==
    Answered =>
        /\ resp.status # 0
        /\ resp.flash = UnexpectedMessage => resp.status = 500

\* C20 (as claimed): a readable, non-empty file of acceptable size from which
\* no metadata can be extracted is still valid, and stream serves it.
C20_MetadataBestEffort ==
    (/\ Answered /\ access(fs, ReqPath)
     /\ Size > 0 /\ ~TooLarge(Size) /\ ~fs[ReqPath].clip.ok)
    => /\ validate_video_file(fs, ReqPath).valid
       /\ req.range.form = "absent" => resp.status = 200

(***************************************************************************)
(* Properties of the subprocesses and files of safe_convert_video.         *)
(***************************************************************************)
\* C14 (as claimed): every transcoding subprocess runs under a timeout, so a
\* call of safe_convert_video never stays inside a process that does not exit.
C14_Terminates == ~job.blocked

\* C15 (as claimed): once safe_convert_video has returned, the output file of
\* every strategy that failed is gone (unless a strategy that succeeded wrote
\* the same path).
C15_FailedOutputDiscarded ==
    (job.active /\ job.returned) =>
        \A i \in 1..Len(job.attempts) :
            ~job.attempts[i].ok =>
                \/ ~exists(fs, job.attempts[i].wrote)
                \/ \E k \in 1..Len(job.attempts) :
                      /\ job.attempts[k].outcome = "ok"
                      /\ job.attempts[k].wrote = job.attempts[i].wrote

\* C16 (as claimed): the upload folder is read-only for the transcode manager
\* as stream calls it (no output path): the folder holds the files it held,
\* and every file written lies in the temporary location.
C16_UploadFolderReadOnly ==
    (job.active /\ job.output_path = None) =>
        \A p \in DOMAIN fs :
            p.dir = UPLOAD_FOLDER => p.name \in StoredNames /\ fs[p] \in StoredFiles(p.name)

(***************************************************************************)
(* Properties of the derivative file of a response.                        *)
(***************************************************************************)
\* the response carries the bytes of a derivative file, not of the asset
ServesDerivative == resp.status \in {200, 206} /\ gen.path # ReqPath

C13_DerivativeKept ==
    (pc \in {"body", "close"} /\ ServesDerivative)
    => /\ exists(fs, gen.path)
       /\ fs[gen.path] = Transcoded(fs[ReqPath])

C13_Witness ==
    /\ pc = "done" /\ ServesDerivative /\ resp.status = 200
    /\ gen.exhausted /\ resp.body = Transcoded(fs[ReqPath]).bytes
    /\ Len(resp.body) > STREAM_CHUNK_SIZE
    /\ ~exists(fs, gen.path)

C24_ChunkedBody ==
    [][ (pc = "body" /\ resp.status = 200 /\ gen' # gen)
        => LET file == fs[gen.path].bytes
               k == Len(resp'.body) - Len(resp.body)
           IN  /\ k >= 0 /\ k <= STREAM_CHUNK_SIZE
               /\ Len(resp'.body) <= Len(file)
               /\ resp'.body = SubSeq(file, 1, Len(resp'.body))
               /\ (k = 0) <=> gen'.exhausted
               /\ gen'.exhausted => resp.body = file
               /\ (0 < k /\ k < STREAM_CHUNK_SIZE) => resp'.body = file ]_vars

C24_Witness ==
    /\ pc = "close" /\ resp.status = 200 /\ gen.exhausted
    /\ Len(resp.body) = STREAM_CHUNK_SIZE
    /\ resp.body = fs[gen.path].bytes

(***************************************************************************)
(* Properties of the accounts.                                             *)
(***************************************************************************)
\* the rows registered with this username and this password
RegisteredWith(username, password) ==
    {u \in users : /\ u.username = username
                   /\ \E salt \in Salts :
                        u.password_hash = generate_password_hash(password, salt)}

MoviePath(m) == join(UPLOAD_FOLDER, m.filename)

ThumbPath(m) == join(THUMBNAIL_FOLDER, m.thumbnail)

\* C25 (as claimed): after delete_movie by the uploader, whatever the outcome,
\* the row, the movie file and the thumbnail are either all gone or all still
\* there.
C25_DeleteAtomic ==
    (/\ lastreq.route = "delete_movie"
     /\ lastreq.movie # NoMovie
     /\ lastreq.movie.user_id = lastreq.user)
    => LET m == lastreq.movie
       IN  \/ /\ m \notin movies
              /\ ~exists(fs, MoviePath(m))
              /\ ~exists(fs, ThumbPath(m))
           \/ /\ m \in movies
              /\ exists(fs, MoviePath(m))
              /\ m.thumbnail # NoName => exists(fs, ThumbPath(m))

\* C29: an edit_movie or delete_movie request of a logged-in user who is not
\* the uploader of the movie changes no row of the table movies and no file.
C29_OnlyUploader ==
    [][ (/\ lastreq'.route \in {"edit_movie", "delete_movie"}
         /\ lastreq'.movie # NoMovie
         /\ lastreq'.user # 0
         /\ lastreq'.movie.user_id # lastreq'.user)
        => (movies' = movies /\ fs' = fs) ]_vars

C29_Witness ==
    /\ lastreq.route = "delete_movie"
    /\ lastreq.flash = "You are not authorized to delete this movie."
    /\ lastreq.user # 0 /\ lastreq.user # lastreq.movie.user_id
    /\ lastreq.movie \in movies
    /\ exists(fs, MoviePath(lastreq.movie))
    /\ lastreq.movie.thumbnail # NoName /\ exists(fs, ThumbPath(lastreq.movie))

\* C30 (as claimed): an upload that is rejected creates no row and leaves the
\* file of every row as it was, also when it came under the filename of a row.
C30_FailedUploadFrame ==
    [][ (lastreq'.route = "upload" /\ lastreq'.status # 201)
        => /\ movies' = movies
           /\ \A m \in movies :
                exists(fs, MoviePath(m))
                => exists(fs', MoviePath(m)) /\ fs'[MoviePath(m)] = fs[MoviePath(m)] ]_vars

\* C26 (as claimed): when the body generator of a 200 response has come to
\* its end, it has not failed and the bytes delivered are as many as the
\* Content-Length declared, whatever delete_movie or upload did meanwhile.
C26_LengthAsDeclared ==
    (resp.status = 200 /\ (gen.exhausted \/ gen.failed))
    => /\ ~gen.failed
       /\ Len(resp.body) = int(resp.headers["Content-Length"])

\* C28 (as claimed): a 200 or 206 answer of /stream goes only to a client
\* that was logged in when it asked.
C28_StreamNeedsLogin ==
    (lastreq.route = "stream" /\ lastreq.status \in {200, 206}) => lastreq.user # 0

====
